---- MODULE Spec2Model ----
(***************************************************************************)
(* Model of the structured-data crawler: the crawl orchestrator            *)
(* (services/crawler.ts, crawlDomain), the robots rule evaluator           *)
(* (services/robotsParser.ts, isAllowedByRobots), the URL normaliser       *)
(* (normalizeUrl) and the React hook that drives a crawl and stores what   *)
(* the caller sees (hooks/useCrawler.ts).                                  *)
(*                                                                         *)
(* A URL is a record [scheme, www, host, path]: www is the number of       *)
(* leading "www." labels of the hostname, host the rest of the hostname    *)
(* ("" when the string does not parse as a URL) and path the pathname as a *)
(* sequence of characters (<<>> for a URL string written without any path, *)
(* which the URL parser reads as "/").                                     *)
(***************************************************************************)
EXTENDS Integers, Sequences, FiniteSets, TLC

\* ------------------------------------------------------------------ bounds
MaxPagesBound == 3
MaxDepthBound == 2
MaxItems == 1
\* how far below the cap the frontier of a link-dense site starts
MaxRoom == 2

\* ------------------------------------------------------- program constants
\* crawler.ts: state.queue.length < 1000
QueueCap == 1000

Null == "null"

\* ------------------------------------------------------------ URL helpers
\* urlObj.search: mark is the "?" of a non-null query, params its key=value pairs
NoQuery == [mark |-> FALSE, params |-> <<>>]

\* a parsed URL: www counts the leading "www." labels of the hostname, frag
\* tells a "#..." part
Url(s, w, h, p) ==
    [scheme |-> s, www |-> w, host |-> h, path |-> p, query |-> NoQuery, frag |-> FALSE]

\* html without a <link rel="canonical"> tag
NoCanonical == Url("none", 0, "", <<>>)

Root == <<"/">>
PathA == <<"/", "a">>
PathASlash == <<"/", "a", "/">>
PathB == <<"/", "b">>

\* new URL(x) throws for a string without a host
CanParse(url) == url.host # ""

\* new URL(x).href: a special-scheme URL always has a pathname, at least "/"
Href(url) == IF url.path = <<>> THEN [url EXCEPT !.path = Root] ELSE url

\* String.prototype.startsWith on sequences of characters
StartsWith(s, prefix) ==
    /\ Len(prefix) <= Len(s)
    /\ SubSeq(s, 1, Len(prefix)) = prefix

\* hostname.replace(/^www\./, '')
StripWww(dom) == IF dom.www > 0 THEN [dom EXCEPT !.www = @ - 1] ELSE dom

Hostname(url) == [www |-> url.www, host |-> url.host]

NoDomain == [www |-> 0, host |-> ""]

\* '/' for the root, otherwise pathname.replace(/\/$/, '')
NormalizePath(path) ==
    IF path = <<>> \/ path = Root
    THEN Root
    ELSE IF path[Len(path)] = "/"
         THEN LET cut == SubSeq(path, 1, Len(path) - 1)
              IN  IF cut = <<>> THEN Root ELSE cut
         ELSE path

\* the query keys the model uses, in the order Array.prototype.sort gives them
ParamKeys == <<"a", "b">>

\* Array.from(params.keys()).sort(): one entry per pair, so a key that occurs
\* twice is listed twice
RECURSIVE SortedKeys(_, _)
SortedKeys(params, order) ==
    IF order = <<>>
    THEN <<>>
    ELSE LET same == SelectSeq(params, LAMBDA q : q.k = Head(order))
         IN  [i \in 1..Len(same) |-> same[i].k] \o SortedKeys(params, Tail(order))

\* params.getAll(key)
GetAll(params, key) == SelectSeq(params, LAMBDA q : q.k = key)

\* sortedParams after the forEach over the sorted keys
RECURSIVE SortParams(_, _)
SortParams(params, keys) ==
    IF keys = <<>>
    THEN <<>>
    ELSE GetAll(params, Head(keys)) \o SortParams(params, Tail(keys))

\* if (urlObj.search) urlObj.search = sortedParams.toString(): search is ''
\* for a query that is null or empty, and then the query is left as it is
NormalizeQuery(query) ==
    IF query.params = <<>>
    THEN query
    ELSE [mark |-> TRUE,
          params |-> SortParams(query.params, SortedKeys(query.params, ParamKeys))]

normalizeUrl(url, forceHttpsForDomain) ==
    IF ~CanParse(url)
    THEN url
    ELSE LET u0 == Href(url)
             u1 == IF /\ forceHttpsForDomain # NoDomain
                      /\ \/ Hostname(u0) = forceHttpsForDomain
                         \/ Hostname(u0) = [forceHttpsForDomain EXCEPT !.www = @ + 1]
                   THEN [u0 EXCEPT !.scheme = "https"]
                   ELSE u0
             u2 == IF u1.www > 0 THEN [u1 EXCEPT !.www = @ - 1] ELSE u1
             u3 == [u2 EXCEPT !.frag = FALSE]
             u4 == [u3 EXCEPT !.path = NormalizePath(u3.path)]
         IN  [u4 EXCEPT !.query = NormalizeQuery(u4.query)]

\* html: [canonical: a URL or NoCanonical, items: 0..MaxItems, links: Seq(URL)]
extractCanonicalUrl(html, currentUrl) ==
    IF html.canonical # NoCanonical
    THEN normalizeUrl(html.canonical, NoDomain)
    ELSE normalizeUrl(currentUrl, NoDomain)

\* extractLinks: same-domain hrefs, in document order, duplicates removed
RECURSIVE Dedup(_)
Dedup(s) ==
    IF s = <<>>
    THEN <<>>
    ELSE LET front == Dedup(SubSeq(s, 1, Len(s) - 1))
             last == s[Len(s)]
         IN  IF \E i \in 1..Len(front) : front[i] = last
             THEN front
             ELSE Append(front, last)

SameDomain(link, baseDomain) ==
    LET linkDomain == StripWww(Hostname(link))
    IN  \/ linkDomain = baseDomain
        \/ linkDomain = [baseDomain EXCEPT !.www = @ + 1]

extractLinks(html, baseDomain) ==
    LET abs == [i \in 1..Len(html.links) |-> Href(html.links[i])]
    IN  Dedup(SelectSeq(abs, LAMBDA l : CanParse(l) /\ SameDomain(l, baseDomain)))

\* ------------------------------------------------------------ robots rules
\* Map.set: an existing key keeps its position and takes the new value
MapSet(rules, key, val) ==
    IF \E i \in 1..Len(rules) : rules[i].pattern = key
    THEN [i \in 1..Len(rules) |->
            IF rules[i].pattern = key
            THEN [pattern |-> key, allowed |-> val]
            ELSE rules[i]]
    ELSE Append(rules, [pattern |-> key, allowed |-> val])

\* a user-agent value is <<token>>, or <<>> when empty
RelevantAgent(agent) == agent \in {<<"*">>, <<"structureddatacrawler">>, <<>>}

\* a robots text is a sequence of lines [directive, value]
RECURSIVE ParseLines(_, _, _)
ParseLines(lines, isRelevantUserAgent, rules) ==
    IF lines = <<>>
    THEN rules
    ELSE LET line == Head(lines)
             rest == Tail(lines)
         IN  IF line.directive = "user-agent"
             THEN ParseLines(rest, RelevantAgent(line.value), rules)
             ELSE IF ~isRelevantUserAgent
             THEN ParseLines(rest, isRelevantUserAgent, rules)
             ELSE IF line.directive = "disallow"
             THEN IF line.value = <<>>
                  THEN ParseLines(rest, isRelevantUserAgent, rules)
                  ELSE ParseLines(rest, isRelevantUserAgent, MapSet(rules, line.value, FALSE))
             ELSE IF line.directive = "allow"
             THEN ParseLines(rest, isRelevantUserAgent, MapSet(rules, line.value, TRUE))
             ELSE ParseLines(rest, isRelevantUserAgent, rules)

parseRobotsTxt(robotsText) == ParseLines(robotsText, FALSE, <<>>)

\* mutant: the longest matching prefix decides
isAllowedByLongestPrefix(url, robotsRules) ==
    IF Len(robotsRules) = 0
    THEN TRUE
    ELSE IF ~CanParse(url)
    THEN FALSE
    ELSE LET path == Href(url).path
             hits == {i \in 1..Len(robotsRules) : StartsWith(path, robotsRules[i].pattern)}
         IN  IF hits = {}
             THEN TRUE
             ELSE robotsRules[CHOOSE i \in hits :
                                 \A j \in hits : Len(robotsRules[i].pattern)
                                                     >= Len(robotsRules[j].pattern)].allowed

isAllowedByRobots(url, robotsRules) ==
    IF Len(robotsRules) = 0
    THEN TRUE
    ELSE IF ~CanParse(url)
    THEN FALSE
    ELSE LET path == Href(url).path
             hits == {i \in 1..Len(robotsRules) : StartsWith(path, robotsRules[i].pattern)}
         IN  IF hits = {}
             THEN TRUE
             ELSE robotsRules[CHOOSE i \in hits : \A j \in hits : i <= j].allowed

\* ------------------------------------------------------------------ inputs
\* what the user types: [scheme, www, host, path], path <<>> when none is given
DomainInputs ==
    { Url("", 0, "site", <<>>),
      Url("http", 1, "site", PathASlash),
      Url("https", 0, "", <<>>) }

OptionSets ==
    [maxPages : 0..MaxPagesBound, maxDepth : 0..MaxDepthBound, respectRobots : BOOLEAN]

\* hrefs a page may carry, already resolved against the page URL
LinkLists ==
    { <<>>,
      << Url("https", 0, "site", PathA), Url("https", 0, "site", PathB) >>,
      << Url("http", 1, "site", PathASlash), Url("https", 0, "site", PathA) >>,
      << Url("https", 0, "site", PathB), Url("https", 0, "other", PathA) >> }

Canonicals ==
    { NoCanonical,
      Url("https", 0, "site", PathA),
      Url("https", 0, "other", PathA) }

Htmls == [canonical : Canonicals, items : 0..MaxItems, links : LinkLists]

Line(d, v) == [directive |-> d, value |-> v]

RobotsTexts ==
    { << Line("user-agent", <<"*">>), Line("disallow", PathA) >>,
      << Line("user-agent", <<"*">>), Line("allow", PathA), Line("disallow", Root) >>,
      << Line("user-agent", <<"otherbot">>), Line("disallow", Root) >>,
      << Line("user-agent", <<"*">>), Line("disallow", <<>>) >> }

\* ------------------------------------------------------------------- state
VARIABLES
    \* useCrawler; abortController is Null, "live" or "aborted"
    crawlData, isLoading, error, stats, abortController, results,
    \* crawlDomain
    pc, options, baseDomain, visited, queue, pagesCrawled, structuredDataFound,
    robotsRules, cur,
    \* what the collaborators saw: page fetches issued, entries dequeued, pages
    \* extracted, onProgress and onData calls, and both kinds of call in the
    \* order they were made
    fetchLog, dequeueLog, extractLog, progressLog, dataLog, notifyLog,
    \* a call of one of the pure functions: which one and how far it got, its
    \* argument, its result
    call, arg, ret

uiVars == <<crawlData, isLoading, error, stats, abortController, results>>
crawlVars == <<pc, options, baseDomain, visited, queue, pagesCrawled,
               structuredDataFound, robotsRules, cur>>
logVars == <<fetchLog, dequeueLog, extractLog, progressLog, dataLog, notifyLog>>
pureVars == <<call, arg, ret>>
vars == <<uiVars, crawlVars, logVars, pureVars>>

\* no pure function is being applied
NoCall == [fn |-> "none", at |-> "none"]
NoEntry == [url |-> Url("", 0, "", <<>>), depth |-> 0]
\* stats is null until the first crawl starts
NoStats == [pagesCrawled |-> 0, structuredDataFound |-> 0, status |-> Null]
NoOptions == [maxPages |-> 0, maxDepth |-> 0, respectRobots |-> FALSE]

Init ==
    /\ crawlData = <<>>
    /\ isLoading = FALSE
    /\ error = Null
    /\ stats = NoStats
    /\ abortController = Null
    /\ results = <<>>
    /\ pc = "idle"
    /\ options = NoOptions
    /\ baseDomain = NoDomain
    /\ visited = {}
    /\ queue = <<>>
    /\ pagesCrawled = 0
    /\ structuredDataFound = 0
    /\ robotsRules = <<>>
    /\ cur = NoEntry
    /\ fetchLog = <<>>
    /\ dequeueLog = <<>>
    /\ extractLog = <<>>
    /\ progressLog = <<>>
    /\ dataLog = <<>>
    /\ notifyLog = <<>>
    /\ call = NoCall
    /\ arg = <<>>
    /\ ret = <<>>

\* ----------------------------------------------------- useCrawler.startCrawl
AbortedError == [name |-> "Error", message |-> "Crawl was aborted"]
InvalidUrlError == [name |-> "TypeError", message |-> "Invalid URL"]

\* catch (err): 'AbortError' gives stopped, anything else error
CatchStatus(err) == IF err.name = "AbortError" THEN "stopped" ELSE "error"

CatchMessage(err) ==
    IF err.message # "" THEN err.message ELSE "An error occurred during crawling"

\* the catch and finally blocks of startCrawl
Rejected(err) ==
    /\ stats' = [stats EXCEPT !.status = CatchStatus(err)]
    /\ error' = IF CatchStatus(err) = "stopped" THEN error ELSE CatchMessage(err)
    /\ isLoading' = FALSE
    /\ abortController' = Null
    /\ pc' = "done"

\* mutant: the finally block does not clear isLoading
ResolvedStillLoading ==
    /\ stats' = [stats EXCEPT !.status = "completed"]
    /\ error' = error
    /\ isLoading' = isLoading
    /\ abortController' = Null
    /\ pc' = "done"

\* crawlDomain returned: status completed, then the finally block
Resolved ==
    /\ stats' = [stats EXCEPT !.status = "completed"]
    /\ error' = error
    /\ isLoading' = FALSE
    /\ abortController' = Null
    /\ pc' = "done"

normalizeDomainInput(input) ==
    [baseDomain |-> StripWww(Hostname(input)), startPath |-> input.path]

StartingUrl(input) ==
    LET n == normalizeDomainInput(input)
        baseUrl == Url("https", n.baseDomain.www, n.baseDomain.host, <<>>)
    IN  IF n.startPath # <<>>
        THEN normalizeUrl([baseUrl EXCEPT !.path = n.startPath], n.baseDomain)
        ELSE baseUrl

\* startCrawl up to the first await of crawlDomain. Every piece of state is
\* reset here, so a later crawl of the same hook repeats what the first can do:
\* the model follows one crawl.
StartCrawl(domain, opts) ==
    /\ ~isLoading
    /\ pc = "idle"
    /\ crawlData' = <<>>
    /\ results' = <<>>
    /\ options' = opts
    /\ baseDomain' = normalizeDomainInput(domain).baseDomain
    /\ visited' = {}
    /\ pagesCrawled' = 0
    /\ structuredDataFound' = 0
    /\ robotsRules' = <<>>
    /\ cur' = NoEntry
    /\ fetchLog' = <<>>
    /\ dequeueLog' = <<>>
    /\ extractLog' = <<>>
    /\ progressLog' = <<>>
    /\ dataLog' = <<>>
    /\ notifyLog' = <<>>
    /\ stats' = [pagesCrawled |-> 0, structuredDataFound |-> 0, status |-> "running"]
    /\ error' = Null
    /\ isLoading' = TRUE
    /\ abortController' = "live"
    /\ IF ~CanParse(StartingUrl(domain))
       THEN \* new URL(startingUrl) throws before the crawl state exists
            /\ queue' = <<>>
            /\ pc' = "rejected"
       ELSE /\ queue' = << [url |-> StartingUrl(domain), depth |-> 0] >>
            /\ pc' = IF opts.respectRobots THEN "robots" ELSE "loop"
    /\ UNCHANGED pureVars

\* mutant: the rejection is swallowed and the crawl reported as completed
SetupSwallowed ==
    /\ pc = "rejected"
    /\ Resolved
    /\ UNCHANGED <<pureVars, crawlData, results, options, baseDomain, visited, queue,
                   pagesCrawled, structuredDataFound, robotsRules, cur, logVars>>

\* crawlDomain rejected with the TypeError of new URL: catch and finally
SetupRejected ==
    /\ pc = "rejected"
    /\ Rejected(InvalidUrlError)
    /\ UNCHANGED <<pureVars, crawlData, results, options, baseDomain, visited, queue,
                   pagesCrawled, structuredDataFound, robotsRules, cur, logVars>>

\* useCrawler.stopCrawl: an event handler, so it runs only while crawlDomain
\* is suspended in an await
StopCrawl ==
    /\ abortController # Null
    /\ pc \in {"robots", "delay", "fetch"}
    /\ abortController' = "aborted"
    /\ UNCHANGED <<pureVars, crawlData, isLoading, error, stats, results, crawlVars, logVars>>

\* ------------------------------------------------------ crawler.crawlDomain
\* the robots.txt fetch returned a body
RobotsLoaded(robotsText) ==
    /\ pc = "robots"
    /\ robotsRules' = parseRobotsTxt(robotsText)
    /\ pc' = "loop"
    /\ UNCHANGED <<pureVars, uiVars, options, baseDomain, visited, queue, pagesCrawled,
                   structuredDataFound, cur, logVars>>

\* mutant: a failed robots.txt fetch rejects the crawl
RobotsFailedFatal ==
    /\ pc = "robots"
    /\ Rejected([name |-> "Error", message |-> "robots.txt failed"])
    /\ UNCHANGED <<pureVars, crawlData, results, options, baseDomain, visited, queue,
                   pagesCrawled, structuredDataFound, robotsRules, cur, logVars>>

\* the robots.txt fetch failed: warn and go on with no rules
RobotsFailed ==
    /\ pc = "robots"
    /\ pc' = "loop"
    /\ UNCHANGED <<pureVars, uiVars, options, baseDomain, visited, queue, pagesCrawled,
                   structuredDataFound, robotsRules, cur, logVars>>

\* mutant: the page budget is not part of the loop condition
LoopConditionNoBudget == Len(queue) > 0

\* while (state.queue.length > 0 && state.pagesCrawled < options.maxPages)
LoopCondition == Len(queue) > 0 /\ pagesCrawled < options.maxPages

\* the loop ends and crawlDomain returns
LoopExit ==
    /\ pc = "loop"
    /\ ~LoopCondition
    /\ Resolved
    /\ UNCHANGED <<pureVars, crawlData, results, options, baseDomain, visited, queue,
                   pagesCrawled, structuredDataFound, robotsRules, cur, logVars>>

\* if (signal.aborted) throw new Error('Crawl was aborted')
LoopAborted ==
    /\ pc = "loop"
    /\ LoopCondition
    /\ abortController = "aborted"
    /\ Rejected(AbortedError)
    /\ UNCHANGED <<pureVars, crawlData, results, options, baseDomain, visited, queue,
                   pagesCrawled, structuredDataFound, robotsRules, cur, logVars>>

\* if (state.visited.has(url) || depth > options.maxDepth) continue
SkipEntry(entry) == entry.url \in visited \/ entry.depth > options.maxDepth

\* mutant: the robots test lets every URL through
RobotsSkipNever(entry) == FALSE

\* if (options.respectRobots && !isAllowedByRobots(url, state.robotsRules)) continue
RobotsSkip(entry) ==
    options.respectRobots /\ ~isAllowedByRobots(entry.url, robotsRules)

Shift ==
    /\ pc = "loop"
    /\ LoopCondition
    /\ abortController # "aborted"
    /\ queue' = Tail(queue)
    /\ dequeueLog' = Append(dequeueLog, Head(queue))

\* the entry is dropped by one of the two continue statements
DequeueSkip ==
    /\ Shift
    /\ SkipEntry(Head(queue)) \/ RobotsSkip(Head(queue))
    /\ pc' = "loop"
    /\ UNCHANGED <<pureVars, uiVars, options, baseDomain, visited, pagesCrawled,
                   structuredDataFound, robotsRules, cur,
                   fetchLog, extractLog, progressLog, dataLog, notifyLog>>

\* mutant: the wait is made only after a fetch that succeeded
NeedsDelayAfterSuccess ==
    Len(fetchLog) > 0 /\ fetchLog[Len(fetchLog)].outcome = "ok"

\* if (state.pagesCrawled > 0) await the delay
NeedsDelay == pagesCrawled > 0

\* the entry is taken: wait first unless this is the first page, then fetch
DequeueFetch ==
    /\ Shift
    /\ ~SkipEntry(Head(queue))
    /\ ~RobotsSkip(Head(queue))
    /\ cur' = Head(queue)
    /\ IF NeedsDelay
       THEN pc' = "delay" /\ fetchLog' = fetchLog
       ELSE /\ pc' = "fetch"
            /\ fetchLog' = Append(fetchLog, [url |-> Head(queue).url, outcome |-> "pending"])
    /\ UNCHANGED <<pureVars, uiVars, options, baseDomain, visited, pagesCrawled,
                   structuredDataFound, robotsRules,
                   extractLog, progressLog, dataLog, notifyLog>>

\* the setTimeout of options.delay fired: issue the fetch
DelayDone ==
    /\ pc = "delay"
    /\ pc' = "fetch"
    /\ fetchLog' = Append(fetchLog, [url |-> cur.url, outcome |-> "pending"])
    /\ UNCHANGED <<pureVars, uiVars, options, baseDomain, visited, queue, pagesCrawled,
                   structuredDataFound, robotsRules, cur,
                   dequeueLog, extractLog, progressLog, dataLog, notifyLog>>

SetOutcome(log, o) == [log EXCEPT ![Len(log)].outcome = o]

\* mutant: a page failure rejects the whole crawl
FetchFailedAborts ==
    /\ pc = "fetch"
    /\ Rejected([name |-> "Error", message |-> "fetch failed"])
    /\ fetchLog' = SetOutcome(fetchLog, "failed")
    /\ cur' = NoEntry
    /\ UNCHANGED <<pureVars, crawlData, results, options, baseDomain, visited, queue,
                   pagesCrawled, structuredDataFound, robotsRules,
                   dequeueLog, extractLog, progressLog, dataLog, notifyLog>>

\* fetchWithCorsHandling threw: the catch block warns and the loop goes on
FetchFailed ==
    /\ pc = "fetch"
    /\ pc' = "loop"
    /\ fetchLog' = SetOutcome(fetchLog, "failed")
    /\ cur' = NoEntry
    /\ UNCHANGED <<pureVars, uiVars, options, baseDomain, visited, queue, pagesCrawled,
                   structuredDataFound, robotsRules,
                   dequeueLog, extractLog, progressLog, dataLog, notifyLog>>

\* mutant: the canonical URL is used whatever its domain
FinalUrlAnyDomain(html, url) ==
    LET canonicalUrl == extractCanonicalUrl(html, url)
    IN  IF canonicalUrl # url /\ CanParse(canonicalUrl) THEN canonicalUrl ELSE url

\* the canonical URL is used only when it is on the crawl's domain
FinalUrl(html, url) ==
    LET canonicalUrl == extractCanonicalUrl(html, url)
    IN  IF /\ canonicalUrl # url
           /\ CanParse(canonicalUrl)
           /\ StripWww(Hostname(canonicalUrl)) = baseDomain
        THEN canonicalUrl
        ELSE url

\* extractStructuredData(html, finalUrl): every item carries the page URL
ExtractItems(html, finalUrl) == [i \in 1..html.items |-> [url |-> finalUrl, n |-> i]]

\* mutant: the frontier takes every link
HasRoomAlways(q) == TRUE

\* state.queue.length < 1000
HasRoom(q) == Len(q) < QueueCap

\* mutant: discovered links go to the head of the frontier
RECURSIVE EnqueueFront(_, _, _, _)
EnqueueFront(q, links, vis, depth) ==
    IF links = <<>>
    THEN q
    ELSE LET normalizedLink == normalizeUrl(Head(links), baseDomain)
         IN  IF normalizedLink \notin vis /\ HasRoom(q)
             THEN EnqueueFront(<<[url |-> normalizedLink, depth |-> depth + 1]>> \o q,
                               Tail(links), vis, depth)
             ELSE EnqueueFront(q, Tail(links), vis, depth)

\* for (const link of links) ... state.queue.push(...)
RECURSIVE Enqueue(_, _, _, _)
Enqueue(q, links, vis, depth) ==
    IF links = <<>>
    THEN q
    ELSE LET normalizedLink == normalizeUrl(Head(links), baseDomain)
         IN  IF normalizedLink \notin vis /\ HasRoom(q)
             THEN Enqueue(Append(q, [url |-> normalizedLink, depth |-> depth + 1]),
                          Tail(links), vis, depth)
             ELSE Enqueue(q, Tail(links), vis, depth)

\* mutant: links are followed at every depth
FollowLinksAlways(depth) == TRUE

\* if (depth < options.maxDepth)
FollowLinks(depth) == depth < options.maxDepth

\* mutant: the canonical version is never taken as processed
AlreadyProcessedNever(finalUrl) == FALSE

\* if (state.visited.has(finalUrl)) continue
AlreadyProcessed(finalUrl) == finalUrl \in visited

\* mutant: the counter is set to the page's item count
FoundAfterPage(found, n) == n

\* state.structuredDataFound += structuredData.length
FoundAfter(found, n) == found + n

\* the length of the list the caller holds after the calls made so far
Held(log) == IF log = <<>> THEN 0 ELSE log[Len(log)].held

\* onData(structuredData): the caller pushes the items onto its list
OnData(log, n, pages, found) ==
    Append(log, [kind |-> "data", pagesCrawled |-> pages, structuredDataFound |-> found,
                 items |-> n, held |-> Held(log) + n])

\* onProgress(state.pagesCrawled, state.structuredDataFound): the list is as it was
OnProgress(log, pages, found) ==
    Append(log, [kind |-> "progress", pagesCrawled |-> pages, structuredDataFound |-> found,
                 items |-> 0, held |-> Held(log)])

\* mutant: progress is reported before the page's data is handed over
NotifyProgressFirst(log, n, pages, found) ==
    LET reported == OnProgress(log, pages, found)
    IN  IF n > 0 THEN OnData(reported, n, pages, found) ELSE reported

\* the callbacks of one page: onData when the page has items, then onProgress
Notify(log, n, pages, found) ==
    OnProgress(IF n > 0 THEN OnData(log, n, pages, found) ELSE log, pages, found)

\* the fetch returned html but its canonical URL was already processed
FetchedDuplicate(html) ==
    /\ pc = "fetch"
    /\ AlreadyProcessed(FinalUrl(html, cur.url))
    /\ pc' = "loop"
    /\ fetchLog' = SetOutcome(fetchLog, "duplicate")
    /\ cur' = NoEntry
    /\ UNCHANGED <<pureVars, uiVars, options, baseDomain, visited, queue, pagesCrawled,
                   structuredDataFound, robotsRules,
                   dequeueLog, extractLog, progressLog, dataLog, notifyLog>>

\* the fetch returned html of a new page: count, extract, enqueue, report
FetchedPage(html) ==
    LET finalUrl == FinalUrl(html, cur.url)
        structuredData == ExtractItems(html, finalUrl)
        found == FoundAfter(structuredDataFound, Len(structuredData))
        links == extractLinks(html, baseDomain)
    IN  /\ pc = "fetch"
        /\ ~AlreadyProcessed(finalUrl)
        /\ visited' = visited \cup {finalUrl, cur.url}
        /\ pagesCrawled' = pagesCrawled + 1
        /\ extractLog' = Append(extractLog, [url |-> finalUrl, requested |-> cur.url,
                                             depth |-> cur.depth,
                                             items |-> Len(structuredData),
                                             links |-> Len(links)])
        /\ structuredDataFound' = found
        /\ results' = results \o structuredData
        /\ dataLog' = IF Len(structuredData) > 0
                      THEN Append(dataLog, structuredData)
                      ELSE dataLog
        /\ queue' = IF FollowLinks(cur.depth)
                    THEN Enqueue(queue, links, visited', cur.depth)
                    ELSE queue
        \* onProgress
        /\ stats' = [pagesCrawled |-> pagesCrawled', structuredDataFound |-> found,
                     status |-> "running"]
        /\ crawlData' = results'
        /\ progressLog' = Append(progressLog, <<pagesCrawled', found>>)
        /\ notifyLog' = Notify(notifyLog, Len(structuredData), pagesCrawled', found)
        /\ fetchLog' = SetOutcome(fetchLog, "ok")
        /\ cur' = NoEntry
        /\ pc' = "loop"
        /\ UNCHANGED <<pureVars, isLoading, error, abortController, options, baseDomain,
                       robotsRules, dequeueLog>>

CrawlStep ==
    \/ SetupRejected
    \/ \E robotsText \in RobotsTexts : RobotsLoaded(robotsText)
    \/ RobotsFailed
    \/ LoopExit
    \/ LoopAborted
    \/ DequeueSkip
    \/ DequeueFetch
    \/ DelayDone
    \/ FetchFailed
    \/ \E html \in Htmls : FetchedDuplicate(html)
    \/ \E html \in Htmls : FetchedPage(html)

Next ==
    \/ \E domain \in DomainInputs, opts \in OptionSets : StartCrawl(domain, opts)
    \/ StopCrawl
    \/ CrawlStep

Spec == Init /\ [][Next]_vars

\* every fetch and every delay returns, and the loop keeps running
FairSpec == Spec /\ WF_vars(CrawlStep)

\* ================================================================== claims
Terminal == {"completed", "stopped", "error"}
Running == pc \in {"rejected", "robots", "loop", "delay", "fetch"}

\* C1: when the crawl loop observes the aborted signal, the status the caller
\* receives is 'stopped' and no error message is set.
C1_AbortReportsStopped ==
    [][(pc = "loop" /\ LoopCondition /\ abortController = "aborted")
          => (stats'.status = "stopped" /\ error' = Null)]_vars

\* C2: under fair scheduling every crawl ends: the caller gets one terminal
\* status with isLoading false, that status is never replaced by another,
\* and every step of the loop either raises pagesCrawled or
\* leaves the frontier no longer (a dequeue makes it strictly shorter).
C2_Terminates ==
    /\ [](isLoading => <>(~isLoading /\ stats.status \in Terminal))
    /\ [][stats.status \in Terminal => stats' = stats]_vars
    /\ [][(Running /\ pc' # "done" /\ pc # "robots")
             => \/ pagesCrawled' > pagesCrawled
                \/ /\ pagesCrawled' = pagesCrawled
                   /\ Len(queue') <= Len(queue)
                   /\ (pc = "loop" => Len(queue') < Len(queue))]_vars

C2_Witness ==
    /\ pc = "done"
    /\ stats.status = "completed"
    /\ ~isLoading
    /\ pagesCrawled >= 2
    /\ \E i \in 1..Len(fetchLog) : fetchLog[i].outcome = "failed"

\* C3: pagesCrawled never exceeds maxPages, and extraction has run on no more
\* than maxPages pages.
C3_PageBudget ==
    /\ pagesCrawled <= options.maxPages
    /\ Len(extractLog) <= options.maxPages

C3_Witness ==
    /\ pc = "done"
    /\ options.maxPages >= 2
    /\ pagesCrawled = options.maxPages
    /\ Len(queue) > 0
    /\ \E i \in 1..Len(fetchLog) : fetchLog[i].outcome = "failed"

\* C4: within one crawl no URL is fetched more than once.
C4_NoUrlFetchedTwice ==
    \A i, j \in 1..Len(fetchLog) :
        i # j => fetchLog[i].url # fetchLog[j].url

\* C5: extraction runs at most once per final page URL and exactly once per
\* counted page; no two onData calls carry the same page URL; the caller's
\* list is the items of the extracted pages, each once, in page order.
RECURSIVE ItemsOfPages(_)
ItemsOfPages(pages) ==
    IF pages = <<>>
    THEN <<>>
    ELSE LET p == pages[Len(pages)]
         IN  ItemsOfPages(SubSeq(pages, 1, Len(pages) - 1))
                \o [i \in 1..p.items |-> [url |-> p.url, n |-> i]]

C5_ExtractOncePerPage ==
    /\ \A i, j \in 1..Len(extractLog) : i # j => extractLog[i].url # extractLog[j].url
    /\ Len(extractLog) = pagesCrawled
    /\ \A i, j \in 1..Len(dataLog) : i # j => dataLog[i][1].url # dataLog[j][1].url
    /\ \A i \in 1..Len(dataLog) : \A k \in 1..Len(dataLog[i]) :
           dataLog[i][k].url = dataLog[i][1].url
    /\ results = ItemsOfPages(extractLog)
    /\ \A i, j \in 1..Len(results) : i # j => results[i] # results[j]
    /\ pc \in {"loop", "done"} => crawlData = results

C5_Witness ==
    /\ Len(dataLog) >= 2
    /\ \E i \in 1..Len(fetchLog) : fetchLog[i].outcome = "duplicate"
    /\ \E i \in 1..Len(extractLog) : extractLog[i].url # extractLog[i].requested

\* C6: no URL deeper than maxDepth is enqueued, dequeued or fetched; with
\* maxDepth = 0 only the seed is ever dequeued and fetched.
C6_DepthBound ==
    /\ \A i \in 1..Len(queue) : queue[i].depth <= options.maxDepth
    /\ \A i \in 1..Len(dequeueLog) : dequeueLog[i].depth <= options.maxDepth
    /\ pc \in {"delay", "fetch"} => cur.depth <= options.maxDepth
    /\ options.maxDepth = 0 =>
          /\ Len(dequeueLog) + Len(queue) <= 1
          /\ Len(fetchLog) <= 1
          /\ \A i \in 1..Len(dequeueLog) : dequeueLog[i].depth = 0

C6_Witness ==
    /\ pc = "done"
    /\ options.maxDepth = 0
    /\ Len(extractLog) = 1
    /\ extractLog[1].links > 0
    /\ queue = <<>>

\* C7: with respectRobots set, no page fetch is issued for a URL whose path
\* the rule table denies (the first rule whose prefix matches the path is a
\* deny), so no such URL is counted or extracted either; the seed included.
DeniedByRules(url, rules) ==
    \E i \in 1..Len(rules) :
        /\ StartsWith(Href(url).path, rules[i].pattern)
        /\ ~rules[i].allowed
        /\ \A j \in 1..(i - 1) : ~StartsWith(Href(url).path, rules[j].pattern)

C7_RobotsDenyNeverFetched ==
    options.respectRobots =>
        /\ \A i \in 1..Len(fetchLog) : ~DeniedByRules(fetchLog[i].url, robotsRules)
        /\ \A i \in 1..Len(extractLog) :
              ~DeniedByRules(extractLog[i].requested, robotsRules)
        /\ pc \in {"delay", "fetch"} => ~DeniedByRules(cur.url, robotsRules)

C7_Witness ==
    /\ options.respectRobots
    /\ pc = "done"
    /\ Len(fetchLog) > 0
    /\ \E i \in 1..Len(dequeueLog) :
          dequeueLog[i].depth > 0 /\ DeniedByRules(dequeueLog[i].url, robotsRules)

\* the seed itself is denied: nothing is fetched and the crawl completes
C7_SeedDenied ==
    /\ options.respectRobots
    /\ pc = "done"
    /\ Len(dequeueLog) = 1
    /\ DeniedByRules(dequeueLog[1].url, robotsRules)
    /\ fetchLog = <<>>

\* C8: a failed page fetch changes neither the visited set nor the counters,
\* calls neither callback, leaves the caller's state as it was and hands
\* control back to the loop.
C8_FailureIsLocal ==
    [][(pc = "fetch" /\ fetchLog'[Len(fetchLog')].outcome = "failed")
          => /\ pc' = "loop"
             /\ visited' = visited
             /\ pagesCrawled' = pagesCrawled
             /\ structuredDataFound' = structuredDataFound
             /\ progressLog' = progressLog
             /\ dataLog' = dataLog
             /\ extractLog' = extractLog
             /\ queue' = queue
             /\ stats' = stats /\ error' = error /\ isLoading' = isLoading
             /\ crawlData' = crawlData]_vars

C8_Witness ==
    /\ pc = "done"
    /\ stats.status = "completed"
    /\ error = Null
    /\ \E i, j \in 1..Len(fetchLog) :
          /\ i < j
          /\ fetchLog[i].outcome = "failed"
          /\ fetchLog[j].outcome = "failed"
    /\ \E i \in 1..Len(fetchLog) : fetchLog[i].outcome = "ok"

\* C9: the frontier is FIFO: queued depths never decrease from head to tail,
\* entries are dequeued in non-decreasing depth, and nothing still queued is
\* shallower than an entry already dequeued.
C9_BreadthFirst ==
    /\ \A i, j \in 1..Len(queue) : i < j => queue[i].depth <= queue[j].depth
    /\ \A i, j \in 1..Len(dequeueLog) :
          i < j => dequeueLog[i].depth <= dequeueLog[j].depth
    /\ \A i \in 1..Len(dequeueLog) : \A j \in 1..Len(queue) :
          dequeueLog[i].depth <= queue[j].depth

C9_Witness ==
    /\ Len(dequeueLog) >= 4
    /\ dequeueLog[Len(dequeueLog)].depth = 2
    /\ dequeueLog[Len(dequeueLog) - 1].depth = 1
    /\ dequeueLog[Len(dequeueLog) - 2].depth = 1

\* C10: the pairs given to onProgress never decrease in either component,
\* and during a crawl the stats the caller holds never go down.
C10_ProgressMonotone ==
    /\ [](\A i, j \in 1..Len(progressLog) :
            i < j => /\ progressLog[i][1] <= progressLog[j][1]
                     /\ progressLog[i][2] <= progressLog[j][2])
    /\ [][isLoading => /\ stats'.pagesCrawled >= stats.pagesCrawled
                       /\ stats'.structuredDataFound >= stats.structuredDataFound]_vars

C10_Witness ==
    /\ Len(progressLog) >= 3
    /\ progressLog[1][2] > 0
    /\ progressLog[2] = <<2, progressLog[1][2]>>
    /\ progressLog[3][2] > progressLog[2][2]
    /\ stats.structuredDataFound = progressLog[3][2]

\* ============================================================ pure functions
\* The crawl does not move while one of the pure functions is applied.
crawlAll == <<uiVars, crawlVars, logVars>>

CrawlIdle ==
    /\ crawlData = <<>>
    /\ isLoading = FALSE
    /\ error = Null
    /\ stats = NoStats
    /\ abortController = Null
    /\ results = <<>>
    /\ pc = "idle"
    /\ options = NoOptions
    /\ baseDomain = NoDomain
    /\ visited = {}
    /\ queue = <<>>
    /\ pagesCrawled = 0
    /\ structuredDataFound = 0
    /\ robotsRules = <<>>
    /\ cur = NoEntry
    /\ fetchLog = <<>>
    /\ dequeueLog = <<>>
    /\ extractLog = <<>>
    /\ progressLog = <<>>
    /\ dataLog = <<>>
    /\ notifyLog = <<>>

\* ------------------------------------------------------ structured payloads
\* A JSON value: a string, an object (kids are its entries in insertion
\* order) or an array (kids are its elements, keyed "[0]", "[1]", ...).
Str(s) == [kind |-> "str", s |-> s, kids |-> <<>>]
P(k, v) == [key |-> k, val |-> v]
Obj(kids) == [kind |-> "obj", s |-> "", kids |-> kids]
IndexKey(i) == CASE i = 0 -> "[0]" [] i = 1 -> "[1]" [] OTHER -> "[2]"
Arr(vals) ==
    [kind |-> "arr", s |-> "",
     kids |-> [i \in 1..Len(vals) |-> P(IndexKey(i - 1), vals[i])]]
Undefined == [kind |-> "undefined", s |-> "", kids |-> <<>>]

\* typeof v === 'object' for a value that is not null
IsObject(v) == v.kind \in {"obj", "arr"}
Truthy(v) == IsObject(v) \/ (v.kind = "str" /\ v.s # "")
\* Object.keys(obj)
KeysOf(obj) == [i \in 1..Len(obj.kids) |-> obj.kids[i].key]
Has(obj, k) == obj.kind = "obj" /\ \E i \in 1..Len(obj.kids) : obj.kids[i].key = k
\* obj[k]
Prop(obj, k) ==
    IF Has(obj, k)
    THEN obj.kids[CHOOSE i \in 1..Len(obj.kids) : obj.kids[i].key = k].val
    ELSE Undefined

\* the property names of the model, in the order of their UTF-16 code units
KeyOrder == <<"@id", "@type", "author", "itemReviewed", "mentions", "name", "sameAs", "url">>
Rank(k) == CHOOSE i \in 1..Len(KeyOrder) : KeyOrder[i] = k

\* Array.prototype.sort() of property names
RECURSIVE SortStrings(_)
SortStrings(keys) ==
    IF keys = <<>>
    THEN <<>>
    ELSE LET rest == SortStrings(SubSeq(keys, 1, Len(keys) - 1))
             x == keys[Len(keys)]
             k == Cardinality({i \in 1..Len(rest) : Rank(rest[i]) <= Rank(x)})
         IN  SubSeq(rest, 1, k) \o <<x>> \o SubSeq(rest, k + 1, Len(rest))

\* JSON.stringify(value, propertyList): at every depth an object keeps the
\* properties named in the list, in the order of the list; arrays keep every
\* element. The text is kept as the tree it spells.
RECURSIVE Stringify(_, _)
Stringify(value, propertyList) ==
    CASE value.kind = "obj" ->
           LET kept == SelectSeq(propertyList, LAMBDA k : Has(value, k))
           IN  Obj([i \in 1..Len(kept) |->
                      P(kept[i], Stringify(Prop(value, kept[i]), propertyList))])
      [] value.kind = "arr" ->
           [value EXCEPT !.kids =
               [i \in 1..Len(value.kids) |->
                   P(value.kids[i].key, Stringify(value.kids[i].val, propertyList))]]
      [] OTHER -> value

\* mutant: the property list is Object.keys(data), unsorted
generateDataHashUnsorted(data) == Stringify(data, KeysOf(data))

\* MD5(JSON.stringify(data, Object.keys(data).sort())): the digest is one to
\* one with the text it is taken of
generateDataHash(data) == Stringify(data, SortStrings(KeysOf(data)))

\* data['@id'] || data.id || ... || undefined, over the properties of the model
extractId(data) ==
    CASE Truthy(Prop(data, "@id")) -> Prop(data, "@id")
      [] Truthy(Prop(data, "url")) -> Prop(data, "url")
      [] Truthy(Prop(data, "sameAs")) -> Prop(data, "sameAs")
      [] OTHER -> Undefined

\* the StructuredDataItem an extractor makes of a payload found at url
Item(url, format, data) ==
    [url |-> url, format |-> format,
     type |-> IF Truthy(Prop(data, "@type")) THEN Prop(data, "@type").s ELSE "Unknown",
     data |-> data, id |-> extractId(data), hash |-> generateDataHash(data)]

\* ------------------------------------------- dataGrouper.groupStructuredData
NoIds == [x \in {} |-> x]

\* if (!idToHashMap.has(id) || idToHashMap.get(id) === hash) idToHashMap.set(id, hash)
IndexId(idToHashMap, id, hash) ==
    IF id \notin DOMAIN idToHashMap \/ idToHashMap[id] = hash
    THEN [x \in DOMAIN idToHashMap \cup {id} |-> IF x = id THEN hash ELSE idToHashMap[x]]
    ELSE idToHashMap

RECURSIVE collectAllIds(_, _, _)
RECURSIVE CollectValues(_, _, _, _)
collectAllIds(obj, hash, idToHashMap) ==
    IF ~IsObject(obj)
    THEN idToHashMap
    ELSE LET own == Prop(obj, "@id")
             m == IF own.kind = "str" THEN IndexId(idToHashMap, own.s, hash)
                  ELSE idToHashMap
         IN  CollectValues(obj.kids, 1, hash, m)

\* Object.values(obj).forEach(value => ...)
CollectValues(kids, i, hash, idToHashMap) ==
    IF i > Len(kids)
    THEN idToHashMap
    ELSE CollectValues(kids, i + 1, hash,
                       IF IsObject(kids[i].val)
                       THEN collectAllIds(kids[i].val, hash, idToHashMap)
                       ELSE idToHashMap)

\* const canonicalId = item.data['@id'] || item.id and its entry in the index;
\* a canonicalId that is not a string is a key no string lookup finds
IndexItem(item, idToHashMap) ==
    LET canonicalId == IF Truthy(Prop(item.data, "@id")) THEN Prop(item.data, "@id")
                       ELSE item.id
        m == IF Truthy(canonicalId) /\ canonicalId.kind = "str"
             THEN IndexId(idToHashMap, canonicalId.s, item.hash)
             ELSE idToHashMap
    IN  collectAllIds(item.data, item.hash, m)

\* snippets.has(item.hash)
HasSnippet(snippets, hash) == \E i \in 1..Len(snippets) : snippets[i].hash = hash

NewSnippet(item) ==
    [hash |-> item.hash, items |-> <<>>, type |-> item.type, format |-> item.format,
     connections |-> <<>>, duplicateCount |-> 0]

\* mutant: the count is of the distinct page URLs
DuplicateCountByUrl(items) == Cardinality({items[i].url : i \in 1..Len(items)})

\* snippet.items.length
DuplicateCount(items) == Len(items)

\* mutant: the snippet is opened anew for every item and keeps only the last
PushItemReplace(snippet, item) ==
    [snippet EXCEPT !.items = <<item>>,
                    !.duplicateCount = 1,
                    !.format = item.format]

\* snippet.items.push(item); duplicateCount = items.length; format 'Mixed'
PushItem(snippet, item) ==
    [snippet EXCEPT !.items = Append(@, item),
                    !.duplicateCount = DuplicateCount(Append(snippet.items, item)),
                    !.format = IF @ # item.format THEN "Mixed" ELSE @]

\* the body of the first pass for one item, on the snippets in Map order
AddItem(snippets, item) ==
    LET opened == IF HasSnippet(snippets, item.hash) THEN snippets
                  ELSE Append(snippets, NewSnippet(item))
        at == CHOOSE i \in 1..Len(opened) :
                  /\ opened[i].hash = item.hash
                  /\ \A j \in 1..(i - 1) : opened[j].hash # item.hash
    IN  [opened EXCEPT ![at] = PushItem(@, item)]

RECURSIVE FirstPass(_, _, _)
FirstPass(items, snippets, idToHashMap) ==
    IF items = <<>>
    THEN [snippets |-> snippets, idToHashMap |-> idToHashMap]
    ELSE FirstPass(Tail(items), AddItem(snippets, Head(items)),
                   IndexItem(Head(items), idToHashMap))

\* lowerProp.includes(word), for the property names of the model
Includes(key, word) ==
    <<key, word>> \in
        { <<"sameAs", "sameas">>, <<"author", "author">>,
          <<"Author", "author">>, <<"coauthor", "author">>,
          <<"mainEntity", "mainentity">>, <<"mainEntityOfPage", "mainentity">>,
          <<"about", "about">>,
          <<"aboutAuthor", "about">>, <<"aboutAuthor", "author">>,
          <<"publisher", "publisher">>,
          <<"creator", "creator">> }

\* property paths are kept as their segments: 'author.@id' is <<"author", "@id">>
PathIncludes(path, word) == \E i \in 1..Len(path) : Includes(path[i], word)

determineConnectionType(property) ==
    CASE PathIncludes(property, "sameas") -> "sameAs"
      [] PathIncludes(property, "mainentity") -> "mainEntity"
      [] PathIncludes(property, "about") -> "about"
      [] PathIncludes(property, "author") -> "author"
      [] PathIncludes(property, "publisher") -> "publisher"
      [] OTHER -> "reference"

\* mutant: a reference to the item's own hash is kept
IsOwnHashNever(targetHash, item) == FALSE

\* targetHash !== item.hash, negated
IsOwnHash(targetHash, item) == targetHash = item.hash

\* mutant: no connection key is ever taken as seen
SeenNever(connections, type, id, path) == FALSE

\* seenConnections.has(connectionKey): the key is type, id and path
Seen(connections, type, id, path) ==
    \E i \in 1..Len(connections) :
        /\ connections[i].type = type
        /\ connections[i].targetId = id
        /\ connections[i].property = path

RECURSIVE checkForReferences(_, _, _, _, _)
RECURSIVE CheckEntries(_, _, _, _, _, _)
checkForReferences(obj, path, item, idToHashMap, connections) ==
    CASE obj.kind = "str" ->
           IF /\ obj.s \in DOMAIN idToHashMap
              /\ ~IsOwnHash(idToHashMap[obj.s], item)
              /\ ~Seen(connections, determineConnectionType(path), obj.s, path)
           THEN Append(connections,
                       [type |-> determineConnectionType(path), targetId |-> obj.s,
                        targetHash |-> idToHashMap[obj.s], property |-> path,
                        value |-> obj.s])
           ELSE connections
      [] IsObject(obj) -> CheckEntries(obj.kids, 1, path, item, idToHashMap, connections)
      [] OTHER -> connections

\* obj.forEach / Object.entries(obj).forEach: the path grows by "[index]" or
\* by the key
CheckEntries(kids, i, path, item, idToHashMap, connections) ==
    IF i > Len(kids)
    THEN connections
    ELSE CheckEntries(kids, i + 1, path, item, idToHashMap,
                      checkForReferences(kids[i].val, Append(path, kids[i].key),
                                         item, idToHashMap, connections))

\* the reference patterns that are property names of the model
referencePatterns == <<"@id", "sameAs", "author", "url", "mentions">>

RECURSIVE CheckPatterns(_, _, _, _)
CheckPatterns(patterns, item, idToHashMap, connections) ==
    IF patterns = <<>>
    THEN connections
    ELSE CheckPatterns(Tail(patterns), item, idToHashMap,
             IF Truthy(Prop(item.data, Head(patterns)))
             THEN checkForReferences(Prop(item.data, Head(patterns)), <<Head(patterns)>>,
                                     item, idToHashMap, connections)
             ELSE connections)

findConnections(item, idToHashMap) ==
    checkForReferences(item.data, <<>>, item, idToHashMap,
                       CheckPatterns(referencePatterns, item, idToHashMap, <<>>))

\* Array.prototype.sort((a, b) => b.duplicateCount - a.duplicateCount): stable
RECURSIVE SortByCount(_)
SortByCount(snippets) ==
    IF snippets = <<>>
    THEN <<>>
    ELSE LET rest == SortByCount(SubSeq(snippets, 1, Len(snippets) - 1))
             x == snippets[Len(snippets)]
             k == Cardinality({i \in 1..Len(rest) :
                                  rest[i].duplicateCount >= x.duplicateCount})
         IN  SubSeq(rest, 1, k) \o <<x>> \o SubSeq(rest, k + 1, Len(rest))

groupStructuredData(items) ==
    LET first == FirstPass(items, <<>>, NoIds)
        second == [i \in 1..Len(first.snippets) |->
                      [first.snippets[i] EXCEPT !.connections =
                          findConnections(first.snippets[i].items[1], first.idToHashMap)]]
    IN  SortByCount(second)

\* --------------------------------- dataGrouper.findRelatedSnippets and so on
\* allSnippets.find(s => s.hash === hash), as a sequence of none or one
Find(allSnippets, hash) ==
    LET found == SelectSeq(allSnippets, LAMBDA sn : sn.hash = hash)
    IN  IF found = <<>> THEN <<>> ELSE <<found[1]>>

\* relatedSnippets.includes(snippet)
Includes1(snippets, snippet) == \E i \in 1..Len(snippets) : snippets[i] = snippet

\* mutant: a snippet is pushed once for every connection to it
PushNewAlways(snippets, snippet) == Append(snippets, snippet)

\* if (!list.includes(snippet)) list.push(snippet)
PushNew(snippets, snippet) ==
    IF Includes1(snippets, snippet) THEN snippets ELSE Append(snippets, snippet)

\* targetSnippet.connections.forEach(...): the snippets this one references
RECURSIVE Outgoing(_, _, _)
Outgoing(connections, allSnippets, related) ==
    IF connections = <<>>
    THEN related
    ELSE LET relatedSnippet == Find(allSnippets, Head(connections).targetHash)
         IN  Outgoing(Tail(connections), allSnippets,
                      IF relatedSnippet # <<>> THEN PushNew(related, relatedSnippet[1])
                      ELSE related)

\* conn.targetHash === target.hash || (target.items[0].id && conn.targetId === that id)
HasReferenceToTarget(snippet, targetSnippet) ==
    \E i \in 1..Len(snippet.connections) :
        \/ snippet.connections[i].targetHash = targetSnippet.hash
        \/ /\ targetSnippet.items[1].id.kind = "str"
           /\ targetSnippet.items[1].id.s # ""
           /\ snippet.connections[i].targetId = targetSnippet.items[1].id.s

\* allSnippets.forEach(...): the snippets that reference this one
RECURSIVE Referencing(_, _, _)
Referencing(allSnippets, targetSnippet, related) ==
    IF allSnippets = <<>>
    THEN related
    ELSE Referencing(Tail(allSnippets), targetSnippet,
                     IF /\ Head(allSnippets).hash # targetSnippet.hash
                        /\ HasReferenceToTarget(Head(allSnippets), targetSnippet)
                     THEN PushNew(related, Head(allSnippets))
                     ELSE related)

findRelatedSnippets(targetSnippet, allSnippets) ==
    Referencing(allSnippets, targetSnippet,
                Outgoing(targetSnippet.connections, allSnippets, <<>>))

\* the strings a value adds to targetIds: itself, or its elements for an array
IdStrings(v) ==
    CASE v.kind = "str" /\ v.s # "" -> {v.s}
      [] v.kind = "arr" -> {v.kids[i].val.s : i \in {j \in 1..Len(v.kids) : v.kids[j].val.kind = "str"}}
      [] OTHER -> {}

\* targetIds: items[0].id, and every item's @id, url and sameAs
TargetIds(targetSnippet) ==
    (IF targetSnippet.items[1].id.kind = "str" THEN IdStrings(targetSnippet.items[1].id) ELSE {})
    \cup UNION { (IF Prop(targetSnippet.items[i].data, "@id").kind = "str"
                  THEN IdStrings(Prop(targetSnippet.items[i].data, "@id")) ELSE {})
                 \cup (IF Prop(targetSnippet.items[i].data, "url").kind = "str"
                       THEN IdStrings(Prop(targetSnippet.items[i].data, "url")) ELSE {})
                 \cup IdStrings(Prop(targetSnippet.items[i].data, "sameAs"))
                 : i \in 1..Len(targetSnippet.items) }

\* targetIds.has(connection.targetId) || connection.targetHash === target.hash
HasIncomingReference(snippet, targetSnippet) ==
    \E i \in 1..Len(snippet.connections) :
        \/ snippet.connections[i].targetId \in TargetIds(targetSnippet)
        \/ snippet.connections[i].targetHash = targetSnippet.hash

RECURSIVE Incoming(_, _, _)
Incoming(allSnippets, targetSnippet, incoming) ==
    IF allSnippets = <<>>
    THEN incoming
    ELSE Incoming(Tail(allSnippets), targetSnippet,
                  IF /\ Head(allSnippets).hash # targetSnippet.hash
                     /\ HasIncomingReference(Head(allSnippets), targetSnippet)
                  THEN PushNew(incoming, Head(allSnippets))
                  ELSE incoming)

findIncomingReferences(targetSnippet, allSnippets) ==
    Incoming(allSnippets, targetSnippet, <<>>)

\* ------------------------------------------------ the grouper, applied
\* longest item list handed to the grouper
MaxListLen == 3

Product ==
    Obj(<< P("@type", Str("Product")), P("name", Str("Widget")), P("@id", Str("#w1")) >>)
\* the same payload with its keys inserted in another order
ProductReordered ==
    Obj(<< P("@id", Str("#w1")), P("name", Str("Widget")), P("@type", Str("Product")) >>)
Review ==
    Obj(<< P("@type", Str("Review")), P("itemReviewed", Obj(<< P("@id", Str("#w1")) >>)) >>)
Article ==
    Obj(<< P("@type", Str("Article")), P("@id", Str("#a1")),
           P("author", Obj(<< P("@id", Str("#p1")) >>)),
           P("mentions", Arr(<< Str("#w1"), Str("#p1") >>)) >>)
Person ==
    Obj(<< P("@id", Str("#p1")), P("@type", Str("Person")), P("sameAs", Str("#a1")) >>)

ItemPool ==
    { Item("u1", "JSON-LD", Product), Item("u2", "JSON-LD", Product),
      Item("u3", "Microdata", Product), Item("u1", "JSON-LD", ProductReordered),
      Item("u1", "JSON-LD", Review),
      Item("u1", "JSON-LD", Article), Item("u2", "JSON-LD", Person) }

ItemLists == UNION { [1..n -> ItemPool] : n \in 0..MaxListLen }

NoRelated == [snippets |-> <<>>, related |-> <<>>, incoming |-> <<>>]

GroupInit ==
    /\ CrawlIdle
    /\ call = [fn |-> "groupStructuredData", at |-> "called"]
    /\ arg \in ItemLists
    /\ ret = NoRelated

\* useCrawler hands the items to groupStructuredData
Group ==
    /\ call = [fn |-> "groupStructuredData", at |-> "called"]
    /\ ret' = [ret EXCEPT !.snippets = groupStructuredData(arg)]
    /\ call' = [call EXCEPT !.at = "returned"]
    /\ UNCHANGED <<arg, crawlAll>>

\* the view asks for the related snippets of every snippet
Related ==
    /\ call = [fn |-> "groupStructuredData", at |-> "returned"]
    /\ ret' = [ret EXCEPT
                 !.related = [i \in 1..Len(ret.snippets) |->
                                 findRelatedSnippets(ret.snippets[i], ret.snippets)],
                 !.incoming = [i \in 1..Len(ret.snippets) |->
                                 findIncomingReferences(ret.snippets[i], ret.snippets)]]
    /\ call' = [fn |-> "findRelatedSnippets", at |-> "returned"]
    /\ UNCHANGED <<arg, crawlAll>>

GroupNext == Group \/ Related

GroupSpec == GroupInit /\ [][GroupNext]_vars

Grouped == call.fn \in {"groupStructuredData", "findRelatedSnippets"} /\ call.at = "returned"

WithHash(items, hash) == SelectSeq(items, LAMBDA it : it.hash = hash)

\* C11: grouping is a partition of the input by hash: every item of a snippet
\* has the snippet's hash, there is exactly one snippet per distinct hash of
\* the input, and a snippet's items are exactly the input items of that hash,
\* in input order
C11_GroupingIsPartition ==
    Grouped =>
        /\ \A i \in 1..Len(ret.snippets) :
              /\ \A j \in 1..Len(ret.snippets[i].items) :
                    ret.snippets[i].items[j].hash = ret.snippets[i].hash
              /\ ret.snippets[i].items = WithHash(arg, ret.snippets[i].hash)
              /\ \A j \in 1..Len(ret.snippets) :
                    ret.snippets[j].hash = ret.snippets[i].hash => j = i
        /\ \A k \in 1..Len(arg) :
              \E i \in 1..Len(ret.snippets) : ret.snippets[i].hash = arg[k].hash

\* three items of two hashes, the two of one hash apart in the input
C11_Witness ==
    /\ Grouped
    /\ Len(arg) = 3
    /\ arg[1].hash = arg[3].hash
    /\ arg[1].hash # arg[2].hash
    /\ Len(ret.snippets) = 2
    /\ Len(ret.snippets[1].items) = 2

\* the index the first pass of groupStructuredData leaves
IndexOf(items) == FirstPass(items, <<>>, NoIds).idToHashMap

\* C12: no connection of a produced snippet has the snippet's own hash as its
\* targetHash, also when the payload mentions its own @id or an identifier the
\* index assigns to the snippet itself
C12_NoSelfConnection ==
    Grouped =>
        \A i \in 1..Len(ret.snippets) :
            \A j \in 1..Len(ret.snippets[i].connections) :
                ret.snippets[i].connections[j].targetHash # ret.snippets[i].hash

\* a snippet whose payload carries an @id that the index assigns to the
\* snippet itself, next to a snippet that does have a connection
C12_Witness ==
    /\ Grouped
    /\ \E i \in 1..Len(ret.snippets) :
          /\ Prop(ret.snippets[i].items[1].data, "@id").kind = "str"
          /\ IndexOf(arg)[Prop(ret.snippets[i].items[1].data, "@id").s] = ret.snippets[i].hash
          /\ ret.snippets[i].connections = <<>>
    /\ \E i \in 1..Len(ret.snippets) : ret.snippets[i].connections # <<>>

ProductItem == Item("u1", "JSON-LD", Product)
ReviewItem == Item("u1", "JSON-LD", Review)

\* C13: for a Product with @id '#w1' and a Review with itemReviewed
\* {'@id': '#w1'}, in either input order, grouping yields two snippets and the
\* Review snippet has exactly one connection, to the Product snippet's hash
C13_ReferenceResolvesToDeclarer ==
    (Grouped /\ arg \in {<<ProductItem, ReviewItem>>, <<ReviewItem, ProductItem>>}) =>
        /\ Len(ret.snippets) = 2
        /\ \A i \in 1..2 :
              ret.snippets[i].hash = ReviewItem.hash =>
                  /\ Len(ret.snippets[i].connections) = 1
                  /\ ret.snippets[i].connections[1].targetHash = ProductItem.hash

\* C14: duplicateCount equals items.length and the number of input items of
\* the snippet's hash; one payload found on three URLs gives one snippet with
\* duplicateCount 3 and three items
C14_DuplicateCount ==
    Grouped =>
        /\ \A i \in 1..Len(ret.snippets) :
              /\ ret.snippets[i].duplicateCount = Len(ret.snippets[i].items)
              /\ ret.snippets[i].duplicateCount = Len(WithHash(arg, ret.snippets[i].hash))
        /\ (/\ Len(arg) = 3
            /\ \A k \in 1..3 : arg[k].data = Product
            /\ \A k, l \in 1..3 : arg[k].url = arg[l].url => k = l)
           => /\ Len(ret.snippets) = 1
              /\ ret.snippets[1].duplicateCount = 3
              /\ Len(ret.snippets[1].items) = 3

\* the Product payload found on three different URLs
C14_Witness ==
    /\ Grouped
    /\ Len(arg) = 3
    /\ \A k \in 1..3 : arg[k].data = Product
    /\ {arg[k].url : k \in 1..3} = {"u1", "u2", "u3"}
    /\ ret.snippets[1].duplicateCount = 3

Count(snippets, snippet) == Len(SelectSeq(snippets, LAMBDA sn : sn = snippet))

\* C18: when snippet A has a connection with targetHash = B.hash, B is in
\* findRelatedSnippets(A) and A is in findIncomingReferences(B); neither list
\* holds the queried snippet or holds a snippet twice
C18_RelatedSymmetric ==
    (call = [fn |-> "findRelatedSnippets", at |-> "returned"]) =>
        \A a \in 1..Len(ret.snippets) :
            /\ \A b \in 1..Len(ret.snippets) :
                  (\E j \in 1..Len(ret.snippets[a].connections) :
                      ret.snippets[a].connections[j].targetHash = ret.snippets[b].hash)
                  => /\ Count(ret.related[a], ret.snippets[b]) = 1
                     /\ Count(ret.incoming[b], ret.snippets[a]) = 1
            /\ Count(ret.related[a], ret.snippets[a]) = 0
            /\ Count(ret.incoming[a], ret.snippets[a]) = 0
            /\ \A b \in 1..Len(ret.snippets) :
                  /\ Count(ret.related[a], ret.snippets[b]) <= 1
                  /\ Count(ret.incoming[a], ret.snippets[b]) <= 1

\* a snippet with two connections to one other snippet, which is listed once
C18_Witness ==
    /\ call = [fn |-> "findRelatedSnippets", at |-> "returned"]
    /\ \E a, b \in 1..Len(ret.snippets) :
          /\ a # b
          /\ Len(SelectSeq(ret.snippets[a].connections,
                           LAMBDA c : c.targetHash = ret.snippets[b].hash)) >= 2
          /\ Count(ret.related[a], ret.snippets[b]) = 1
          /\ Count(ret.incoming[b], ret.snippets[a]) = 1

\* ------------------------------------------------ the content hash, applied
\* a Review whose author object has two keys, both also top-level keys
Signed ==
    Obj(<< P("@type", Str("Review")), P("name", Str("Fine")),
           P("author", Obj(<< P("@type", Str("Person")), P("name", Str("Ann")) >>)) >>)

\* every way of inserting the keys of a value, at every depth: the values that
\* are deep-equal to it
RECURSIVE DeepEqual(_)
DeepEqual(v) ==
    IF ~IsObject(v)
    THEN {v}
    ELSE LET n == Len(v.kids)
             vals == {c \in [1..n -> UNION {DeepEqual(v.kids[i].val) : i \in 1..n}] :
                         \A i \in 1..n : c[i] \in DeepEqual(v.kids[i].val)}
             orders == IF v.kind = "arr" THEN {[i \in 1..n |-> i]}
                       ELSE Permutations(1..n)
         IN  {[v EXCEPT !.kids = [i \in 1..n |-> P(v.kids[f[i]].key, c[f[i]])]] :
                 f \in orders, c \in vals}

\* the Review shape pointing at another item
ReviewOther ==
    Obj(<< P("@type", Str("Review")), P("itemReviewed", Obj(<< P("@id", Str("#w2")) >>)) >>)

Payloads == {Product, Review, ReviewOther, Article, Person, Signed}

\* two payloads, in every order of their keys
HashInit ==
    /\ CrawlIdle
    /\ call = [fn |-> "generateDataHash", at |-> "called"]
    /\ \E d1, d2 \in Payloads : arg \in DeepEqual(d1) \X DeepEqual(d2)
    /\ ret = <<>>

\* the extractor hashes two payloads
Hash ==
    /\ call = [fn |-> "generateDataHash", at |-> "called"]
    /\ ret' = <<generateDataHash(arg[1]), generateDataHash(arg[2])>>
    /\ call' = [call EXCEPT !.at = "returned"]
    /\ UNCHANGED <<arg, crawlAll>>

HashNext == Hash

HashSpec == HashInit /\ [][HashNext]_vars

\* C17: payloads that are deep-equal but had their keys inserted in different
\* orders, at the top level or in nested objects, have the same hash
C17_HashIgnoresKeyOrder ==
    (call = [fn |-> "generateDataHash", at |-> "returned"] /\ arg[2] \in DeepEqual(arg[1]))
        => ret[1] = ret[2]

\* two payloads whose top-level keys and whose nested author keys both differ
\* in order
C17_Witness ==
    /\ call = [fn |-> "generateDataHash", at |-> "returned"]
    /\ KeysOf(arg[1]) # KeysOf(arg[2])
    /\ Has(arg[1], "author")
    /\ KeysOf(Prop(arg[1], "author")) # KeysOf(Prop(arg[2], "author"))
    /\ ret[1] = ret[2]

\* ------------------------------------------------------ normalizeUrl, applied
\* most "www." labels in front of a hostname
MaxWww == 2
\* most slashes at the end of a path
MaxSlashes == 2

RECURSIVE Slashes(_)
Slashes(n) == IF n = 0 THEN <<>> ELSE <<"/">> \o Slashes(n - 1)

PathPath == <<"/", "path">>

UrlPaths == {<<>>} \cup {PathPath \o Slashes(n) : n \in 0..MaxSlashes}

Param(k, v) == [k |-> k, v |-> v]

UrlQueries ==
    { NoQuery,
      [mark |-> TRUE, params |-> <<>>],
      [mark |-> TRUE, params |-> << Param("a", "1") >>],
      [mark |-> TRUE, params |-> << Param("b", "1"), Param("a", "1") >>],
      [mark |-> TRUE, params |-> << Param("a", "1"), Param("a", "2") >>] }

UrlInputs ==
    { [scheme |-> s, www |-> w, host |-> h, path |-> p, query |-> q, frag |-> f] :
        s \in {"http", "https"}, w \in 0..MaxWww, h \in {"example.com", "other.org", ""},
        p \in UrlPaths, q \in UrlQueries, f \in BOOLEAN }

ExampleCom == [www |-> 0, host |-> "example.com"]

PinnedDomains == {NoDomain, ExampleCom, [www |-> 0, host |-> "other.org"]}

NormInit ==
    /\ CrawlIdle
    /\ call = [fn |-> "normalizeUrl", at |-> "called"]
    /\ arg \in [url : UrlInputs, pin : PinnedDomains]
    /\ ret = [once |-> arg.url, twice |-> arg.url]

\* normalizeUrl(url, forceHttpsForDomain)
Normalize ==
    /\ call = [fn |-> "normalizeUrl", at |-> "called"]
    /\ ret' = [ret EXCEPT !.once = normalizeUrl(arg.url, arg.pin)]
    /\ call' = [call EXCEPT !.at = "returned"]
    /\ UNCHANGED <<arg, crawlAll>>

\* the result is normalized again, as when a queued URL is normalized on
\* being found a second time
NormalizeAgain ==
    /\ call = [fn |-> "normalizeUrl", at |-> "returned"]
    /\ ret' = [ret EXCEPT !.twice = normalizeUrl(ret.once, arg.pin)]
    /\ call' = [call EXCEPT !.at = "again"]
    /\ UNCHANGED <<arg, crawlAll>>

NormNext == Normalize \/ NormalizeAgain

NormSpec == NormInit /\ [][NormNext]_vars

\* C15: normalization is idempotent, for every URL and every pinned domain:
\* normalize(normalize(u)) = normalize(u)
C15_NormalizeIdempotent ==
    (call = [fn |-> "normalizeUrl", at |-> "again"]) => ret.twice = ret.once

C16Inputs ==
    { [Url("http", 1, "example.com", PathPath \o <<"/">>) EXCEPT !.query = NoQuery],
      Url("https", 0, "example.com", PathPath),
      [Url("https", 0, "example.com", PathPath) EXCEPT
          !.query = [mark |-> TRUE, params |-> <<>>]] }

\* C16: with example.com pinned, http://www.example.com/path/,
\* https://example.com/path and https://example.com/path? all normalize to the
\* same string, https://example.com/path
C16_SameCanonicalString ==
    (/\ call.fn = "normalizeUrl"
     /\ call.at \in {"returned", "again"}
     /\ arg.pin = ExampleCom
     /\ arg.url \in C16Inputs)
    => ret.once = Url("https", 0, "example.com", PathPath)

\* ------------------------------------------------- the robots rules, applied
\* most lines of a robots.txt
MaxRobotsLines == 3

PathAdmin == <<"/", "admin">>
PathAdminX == <<"/", "admin", "/", "x">>
PathPublic == <<"/", "public">>

RobotsLines ==
    { Line("user-agent", <<"*">>), Line("user-agent", <<"otherbot">>),
      Line("disallow", PathAdmin), Line("disallow", Root), Line("disallow", <<>>),
      Line("allow", PathAdmin), Line("allow", PathPublic) }

RobotsInputs == UNION { [1..n -> RobotsLines] : n \in 0..MaxRobotsLines }

RobotsUrls ==
    { Url("https", 0, "site", PathAdminX), Url("https", 0, "site", PathPublic),
      Url("https", 0, "site", PathAdmin), Url("https", 0, "site", <<>>),
      Url("https", 0, "", <<>>) }

RobotsInit ==
    /\ CrawlIdle
    /\ call = [fn |-> "parseRobotsTxt", at |-> "called"]
    /\ arg \in [text : RobotsInputs, url : RobotsUrls]
    /\ ret = [rules |-> <<>>, allowed |-> TRUE]

\* parseRobotsTxt(robotsText)
Parse ==
    /\ call = [fn |-> "parseRobotsTxt", at |-> "called"]
    /\ ret' = [ret EXCEPT !.rules = parseRobotsTxt(arg.text)]
    /\ call' = [call EXCEPT !.at = "returned"]
    /\ UNCHANGED <<arg, crawlAll>>

\* isAllowedByRobots(url, state.robotsRules)
Evaluate ==
    /\ call = [fn |-> "parseRobotsTxt", at |-> "returned"]
    /\ ret' = [ret EXCEPT !.allowed = isAllowedByRobots(arg.url, ret.rules)]
    /\ call' = [fn |-> "isAllowedByRobots", at |-> "returned"]
    /\ UNCHANGED <<arg, crawlAll>>

RobotsNext == Parse \/ Evaluate

RobotsSpec == RobotsInit /\ [][RobotsNext]_vars

Matches(i) == StartsWith(Href(arg.url).path, ret.rules[i].pattern)

\* C19: for a non-empty rule table isAllowed returns the value of the first
\* rule, in the table's order, whose prefix is a prefix of the URL path, and
\* allow when none matches; with 'User-agent: *', 'Disallow: /admin' the path
\* /admin/x is denied and /public is allowed
C19_FirstMatch ==
    (call = [fn |-> "isAllowedByRobots", at |-> "returned"] /\ CanParse(arg.url)) =>
        /\ ret.rules # <<>> =>
              \/ \E i \in 1..Len(ret.rules) :
                    /\ Matches(i)
                    /\ \A j \in 1..(i - 1) : ~Matches(j)
                    /\ ret.allowed = ret.rules[i].allowed
              \/ /\ \A i \in 1..Len(ret.rules) : ~Matches(i)
                 /\ ret.allowed
        /\ arg.text = << Line("user-agent", <<"*">>), Line("disallow", PathAdmin) >> =>
              /\ arg.url.path = PathAdminX => ~ret.allowed
              /\ arg.url.path = PathPublic => ret.allowed

\* two rules match the path with different values, and the earlier one, which
\* has the shorter prefix, decides
C19_Witness ==
    /\ call = [fn |-> "isAllowedByRobots", at |-> "returned"]
    /\ CanParse(arg.url)
    /\ Len(ret.rules) = 2
    /\ Matches(1)
    /\ Matches(2)
    /\ Len(ret.rules[1].pattern) < Len(ret.rules[2].pattern)
    /\ ret.rules[1].allowed # ret.rules[2].allowed
    /\ ret.allowed = ret.rules[1].allowed

\* ------------------------------------------------------- crawl setup failure
\* a crawl was started on an input whose start URL new URL() cannot parse
NoStartUrl == pc # "idle" /\ ~CanParse(Url("https", baseDomain.www, baseDomain.host, <<>>))

\* C20: when the domain input yields no parseable start URL the crawl ends
\* with status error and a non-empty message, no robots or page fetch is
\* issued and neither onData nor onProgress is called
C20_InvalidDomainNoCrawl ==
    NoStartUrl =>
        /\ pc \in {"rejected", "done"}
        /\ robotsRules = <<>>
        /\ fetchLog = <<>>
        /\ dequeueLog = <<>>
        /\ extractLog = <<>>
        /\ dataLog = <<>>
        /\ progressLog = <<>>
        /\ pc = "done" =>
              /\ stats.status = "error"
              /\ error \notin {Null, ""}
              /\ ~isLoading

\* the crawl of an unparseable input has ended
C20_Witness ==
    /\ NoStartUrl
    /\ pc = "done"
    /\ stats.status = "error"
    /\ error = "Invalid URL"

\* ------------------------------------------------ robots.txt cannot be fetched
\* the crawl when every fetch of robots.txt fails
CrawlStepRobotsDown ==
    \/ SetupRejected
    \/ RobotsFailed
    \/ LoopExit
    \/ LoopAborted
    \/ DequeueSkip
    \/ DequeueFetch
    \/ DelayDone
    \/ FetchFailed
    \/ \E html \in Htmls : FetchedDuplicate(html)
    \/ \E html \in Htmls : FetchedPage(html)

RobotsDownNext ==
    \/ \E domain \in DomainInputs, opts \in OptionSets : StartCrawl(domain, opts)
    \/ StopCrawl
    \/ CrawlStepRobotsDown

RobotsDownSpec == Init /\ [][RobotsDownNext]_vars

\* every URL the crawl or a page can name, the unparseable one included
AnyUrls ==
    DomainInputs \cup Canonicals \cup UNION {{l[i] : i \in 1..Len(l)} : l \in LinkLists}

\* C21: a failed robots.txt fetch is not fatal: the crawl goes on running into
\* its loop with the frontier as it was, the rule table stays empty, every URL
\* is allowed by it, and an entry is dropped on dequeuing only for the reasons
\* that apply with respectRobots unset (visited, or too deep)
C21_RobotsFailureNotFatal ==
    /\ [](/\ robotsRules = <<>>
          /\ \A url \in AnyUrls : isAllowedByRobots(url, robotsRules))
    /\ [][(pc = "robots" /\ pc' # "robots") =>
             /\ pc' = "loop"
             /\ stats' = stats
             /\ error' = error
             /\ isLoading'
             /\ queue' = queue]_vars
    /\ [][(pc = "loop" /\ pc' = "loop" /\ queue' # queue) =>
             \/ Head(queue).url \in visited
             \/ Head(queue).depth > options.maxDepth]_vars

\* robots.txt was asked for and could not be fetched, and two pages were
\* processed all the same
C21_Witness ==
    /\ options.respectRobots
    /\ robotsRules = <<>>
    /\ Len(extractLog) >= 2
    /\ Len(dequeueLog) > Len(fetchLog)

\* ------------------------------------------------------ the identifier index
\* the strings found under a key "@id" anywhere in a value
RECURSIVE IdsIn(_)
IdsIn(v) ==
    IF ~IsObject(v)
    THEN {}
    ELSE (IF Prop(v, "@id").kind = "str" THEN {Prop(v, "@id").s} ELSE {})
         \cup UNION {IdsIn(v.kids[i].val) : i \in 1..Len(v.kids)}

\* the identifiers an item claims: its extracted id and every @id of its payload
ClaimedIds(item) ==
    (IF item.id.kind = "str" /\ item.id.s # "" THEN {item.id.s} ELSE {}) \cup IdsIn(item.data)

\* the hash of the last item of the list that claims the identifier
LastClaimant(items, id) ==
    items[CHOOSE k \in 1..Len(items) :
              /\ id \in ClaimedIds(items[k])
              /\ \A l \in (k + 1)..Len(items) : id \notin ClaimedIds(items[l])].hash

\* C22: the identifier index is last-write-wins: an identifier claimed by
\* items of different hashes is indexed to the hash of the item that comes
\* last in the input, and the connections to it target that item's snippet
C22_IndexLastWriteWins ==
    Grouped =>
        /\ \A id \in DOMAIN IndexOf(arg) : IndexOf(arg)[id] = LastClaimant(arg, id)
        /\ \A i \in 1..Len(ret.snippets) :
              \A j \in 1..Len(ret.snippets[i].connections) :
                  ret.snippets[i].connections[j].targetHash
                      = LastClaimant(arg, ret.snippets[i].connections[j].targetId)

\* C23: the hash covers the payload at every depth: two payloads have the
\* same hash only if they are deep-equal, so payloads that differ in a nested
\* property only have different hashes
C23_HashCoversEveryDepth ==
    (call = [fn |-> "generateDataHash", at |-> "returned"] /\ ret[1] = ret[2])
        => arg[2] \in DeepEqual(arg[1])

\* ------------------------------------------------------------------- pacing
\* C24: every page fetch of a crawl but the very first is issued right after
\* a wait of options.delay, also when earlier fetches failed
C24_DelayBeforeEveryLaterFetch ==
    [][(Len(fetchLog') > Len(fetchLog) /\ Len(fetchLog) > 0) => pc = "delay"]_vars

\* a third fetch is issued after the second one failed
C24_Witness ==
    /\ Len(fetchLog) = 3
    /\ fetchLog[1].outcome = "ok"
    /\ fetchLog[2].outcome = "failed"
    /\ fetchLog[3].outcome = "pending"
    /\ pc = "fetch"

\* ------------------------------------------------- canonical URLs elsewhere
OnCrawlDomain(url) == CanParse(url) /\ StripWww(Hostname(url)) = baseDomain

NoDequeueAfterAbort ==
    [][abortController = "aborted" => dequeueLog' = dequeueLog]_vars

\* after the abort only the page in progress (its delay, fetch and extraction)
\* reaches the callbacks: nothing is reported from the top of the loop
OnlyPageInProgress ==
    [][(abortController = "aborted" /\ pc = "loop") =>
          /\ fetchLog' = fetchLog
          /\ extractLog' = extractLog
          /\ dataLog' = dataLog
          /\ progressLog' = progressLog]_vars

\* C26: cancellation is checked at the top of every loop iteration, before
\* dequeuing: once the signal is aborted no further entry is dequeued, at most
\* the page in progress still reaches the callbacks, and the crawl then
\* rejects instead of returning normally
C26_CancelRejects ==
    /\ NoDequeueAfterAbort
    /\ OnlyPageInProgress
    /\ [][(abortController = "aborted" /\ pc' = "done") =>
             stats'.status # "completed"]_vars

\* ------------------------------------------------------- the frontier cap
\* a crawl of a link-dense site, taken up after its first page: the seed page
\* carried n distinct same-domain links /p1 .. /pn and no structured data
Digit == <<"0", "1", "2", "3", "4", "5", "6", "7", "8", "9">>

RECURSIVE Digits(_)
Digits(n) == IF n < 10 THEN <<Digit[n + 1]>> ELSE Append(Digits(n \div 10), Digit[(n % 10) + 1])

SiteInput == Url("", 0, "site", <<>>)
PageUrl(i) == Url("https", 0, "site", <<"/", "p">> \o Digits(i))
DenseFrontier(n) == [i \in 1..n |-> [url |-> PageUrl(i), depth |-> 1]]

FrontierInit ==
    \E n \in (QueueCap - MaxRoom)..QueueCap,
       maxPages \in 2..MaxPagesBound, maxDepth \in 1..2 :
       LET seed == [url |-> StartingUrl(SiteInput), depth |-> 0]
       IN  /\ crawlData = <<>>
           /\ isLoading = TRUE
           /\ error = Null
           /\ stats = [pagesCrawled |-> 1, structuredDataFound |-> 0, status |-> "running"]
           /\ abortController = "live"
           /\ results = <<>>
           /\ pc = "loop"
           /\ options = [maxPages |-> maxPages, maxDepth |-> maxDepth, respectRobots |-> FALSE]
           /\ baseDomain = normalizeDomainInput(SiteInput).baseDomain
           /\ visited = {seed.url}
           /\ queue = DenseFrontier(n)
           /\ pagesCrawled = 1
           /\ structuredDataFound = 0
           /\ robotsRules = <<>>
           /\ cur = NoEntry
           /\ fetchLog = << [url |-> seed.url, outcome |-> "ok"] >>
           /\ dequeueLog = << seed >>
           /\ extractLog = << [url |-> seed.url, requested |-> seed.url, depth |-> 0,
                               items |-> 0, links |-> n] >>
           /\ progressLog = << <<1, 0>> >>
           /\ dataLog = <<>>
           /\ notifyLog = OnProgress(<<>>, 1, 0)
           /\ call = NoCall
           /\ arg = <<>>
           /\ ret = <<>>

\* the pages of the site carry links and no structured data
PlainHtmls == {html \in Htmls : html.items = 0}

\* fetches that fail or give a page already processed use up no page budget:
\* they are followed for the first MaxPagesBound fetches only
FewFetches == Len(fetchLog) <= MaxPagesBound

\* the loop from there on; no queued entry is visited or too deep before the
\* page budget is used up, so none is dropped by a continue
FrontierNext ==
    \/ StopCrawl
    \/ LoopExit
    \/ LoopAborted
    \/ DequeueFetch
    \/ DelayDone
    \/ FewFetches /\ FetchFailed
    \/ FewFetches /\ \E html \in PlainHtmls : FetchedDuplicate(html)
    \/ \E html \in PlainHtmls : FetchedPage(html)

FrontierSpec == FrontierInit /\ [][FrontierNext]_vars

IsPrefix(s, t) == Len(s) <= Len(t) /\ SubSeq(t, 1, Len(s)) = s

\* C27: the frontier never holds more than 1000 entries: a link is appended
\* only while the frontier has fewer than 1000 entries, and a link found
\* beyond the cap is dropped with no other effect (the page is counted and
\* reported as usual, the link is not marked visited, nothing is thrown)
C27_FrontierCapped ==
    /\ [](Len(queue) <= QueueCap)
    /\ [][Len(queue') > Len(queue) =>
             /\ Len(queue) < QueueCap
             /\ IsPrefix(queue, queue')]_vars
    /\ [][(pc = "fetch" /\ Len(extractLog') > Len(extractLog)) =>
             LET e == extractLog'[Len(extractLog')]
             IN  /\ Len(queue') - Len(queue) <= e.links
                 /\ visited' = visited \cup {e.url, e.requested}
                 /\ pagesCrawled' = pagesCrawled + 1
                 /\ progressLog' = Append(progressLog, <<pagesCrawled', structuredDataFound'>>)
                 /\ pc' = "loop"
                 /\ error' = error]_vars

\* the page processed last carried two new links with room for only one: /a
\* took the last place and /b was dropped
C27_Witness ==
    /\ Len(queue) = QueueCap
    /\ Len(extractLog) = 2
    /\ extractLog[2].links = 2
    /\ queue[QueueCap] = [url |-> Url("https", 0, "site", PathA), depth |-> 2]
    /\ queue[QueueCap - 1].depth = 1
    /\ Url("https", 0, "site", PathB) \notin visited
    /\ \A i \in 1..Len(queue) : queue[i].url # Url("https", 0, "site", PathB)

\* ------------------------------------------- determineConnectionType, applied
\* most segments of a property path
MaxPathLen == 2

\* property names a payload may use
PathKeys ==
    { "sameAs", "author", "Author", "coauthor", "mainEntity", "mainEntityOfPage",
      "about", "aboutAuthor", "publisher", "creator", "itemReviewed", "@id" }

RECURSIVE PathsUpTo(_)
PathsUpTo(n) ==
    IF n = 0
    THEN { <<>> }
    ELSE LET shorter == PathsUpTo(n - 1)
         IN  shorter \cup { Append(path, key) : path \in shorter, key \in PathKeys }

PropertyPaths == PathsUpTo(MaxPathLen) \ { <<>> }

TypeInit ==
    /\ CrawlIdle
    /\ call = [fn |-> "determineConnectionType", at |-> "called"]
    /\ arg \in PropertyPaths
    /\ ret = <<>>

\* findConnections types the edge found at a property path
Classify ==
    /\ call = [fn |-> "determineConnectionType", at |-> "called"]
    /\ ret' = <<determineConnectionType(arg)>>
    /\ call' = [call EXCEPT !.at = "returned"]
    /\ UNCHANGED <<arg, crawlAll>>

TypeNext == Classify

TypeSpec == TypeInit /\ [][TypeNext]_vars

\* the priority order of the words, 'author' and 'creator' sharing a rank
TypeByWords(path) ==
    CASE PathIncludes(path, "sameas") -> "sameAs"
      [] PathIncludes(path, "mainentity") -> "mainEntity"
      [] PathIncludes(path, "about") -> "about"
      [] PathIncludes(path, "author") \/ PathIncludes(path, "creator") -> "author"
      [] PathIncludes(path, "publisher") -> "publisher"
      [] OTHER -> "reference"

\* C28: the type of a connection depends on its property path only, by
\* case-insensitive substring test in the order sameas, mainentity, about,
\* author or creator, publisher, and reference for anything else
C28_TypeByPriority ==
    call = [fn |-> "determineConnectionType", at |-> "returned"]
        => ret = <<TypeByWords(arg)>>

\* ------------------------------------------------- connections are resolved
Triple(c) == <<c.type, c.targetId, c.property>>

\* C29: every connection of a produced snippet has a targetHash that is the
\* hash of a snippet of the same output list, and no two connections of one
\* snippet have the same type, targetId and property, although the pass over
\* the reference patterns and the full walk visit the same top-level properties
C29_ConnectionsResolvedOnce ==
    Grouped =>
        \A i \in 1..Len(ret.snippets) :
            LET connections == ret.snippets[i].connections
            IN  /\ \A j \in 1..Len(connections) :
                      \E k \in 1..Len(ret.snippets) :
                          ret.snippets[k].hash = connections[j].targetHash
                /\ \A j, k \in 1..Len(connections) :
                      Triple(connections[j]) = Triple(connections[k]) => j = k

\* a snippet with a connection found at a top-level property that is one of
\* the reference patterns, so both passes came across it
C29_Witness ==
    /\ Grouped
    /\ \E i \in 1..Len(ret.snippets) :
          \E j \in 1..Len(ret.snippets[i].connections) :
              LET c == ret.snippets[i].connections[j]
              IN  /\ Len(c.property) = 1
                  /\ \E p \in 1..Len(referencePatterns) : c.property[1] = referencePatterns[p]
                  /\ Prop(ret.snippets[i].items[1].data, c.property[1]) = Str(c.targetId)

\* --------------------------------------------- progress agrees with the data
\* the items handed over by the first i calls, counted from the data calls
RECURSIVE Delivered(_, _)
Delivered(log, i) ==
    IF i = 0
    THEN 0
    ELSE Delivered(log, i - 1) + (IF log[i].kind = "data" THEN log[i].items ELSE 0)

Reports(log, i) == Cardinality({k \in 1..i : log[k].kind = "progress"})

RECURSIVE TotalLen(_)
TotalLen(batches) == IF batches = <<>> THEN 0 ELSE Len(Head(batches)) + TotalLen(Tail(batches))

\* C30: at every progress notification structuredDataFound is the number of
\* items delivered so far by data notifications, which is the length of the
\* list the caller has accumulated, pagesCrawled is the number of pages on
\* which extraction has run, and the data notification of a page comes before
\* the progress notification of that page
C30_ProgressAgreesWithData ==
    /\ [](/\ \A i \in 1..Len(notifyLog) :
               notifyLog[i].kind = "progress" =>
                   /\ notifyLog[i].structuredDataFound = Delivered(notifyLog, i)
                   /\ notifyLog[i].held = notifyLog[i].structuredDataFound
                   /\ notifyLog[i].pagesCrawled = Reports(notifyLog, i)
          /\ \A j \in 1..Len(notifyLog) :
               notifyLog[j].kind = "data" =>
                   /\ j < Len(notifyLog)
                   /\ notifyLog[j + 1].kind = "progress"
                   /\ notifyLog[j + 1].pagesCrawled = notifyLog[j].pagesCrawled
                   /\ \A i \in 1..(j - 1) :
                         notifyLog[i].pagesCrawled < notifyLog[j].pagesCrawled
          /\ Delivered(notifyLog, Len(notifyLog)) = TotalLen(dataLog)
          /\ Held(notifyLog) = Len(crawlData)
          /\ Held(notifyLog) = Len(results))
    /\ [][Len(notifyLog') > Len(notifyLog) =>
             /\ notifyLog'[Len(notifyLog')].kind = "progress"
             /\ notifyLog'[Len(notifyLog')].pagesCrawled = Len(extractLog')
             /\ notifyLog'[Len(notifyLog')].structuredDataFound = stats'.structuredDataFound
             /\ Len(extractLog') = Len(extractLog) + 1]_vars

\* three pages were reported: the first and the third had items, the second
\* had none
C30_Witness ==
    /\ Len(notifyLog) = 5
    /\ [i \in 1..5 |-> notifyLog[i].kind]
          = <<"data", "progress", "progress", "data", "progress">>
    /\ notifyLog[5].structuredDataFound = 2
    /\ Len(crawlData) = 2

====
